---- MODULE Spec2Model ----
(***************************************************************************)
(* Model of numba/np/ufunc/dufunc.py: the DUFunc object (specialization    *)
(* table, registered loops, keepalive list, frozen flag), its compile,     *)
(* lookup and call-site typing protocol, and the reduction kernels         *)
(* generated by ol_reduce (rank 1, one axis of rank N, a tuple of axes,    *)
(* and the flat offset computation).                                       *)
(***************************************************************************)
EXTENDS Integers, Sequences, FiniteSets, TLC

VARIABLES
    frozen,     \* DUFunc._frozen
    overloads,  \* DUFunc._dispatcher.overloads: insertion-ordered signatures
    loops,      \* loops registered with the ufunc object by _add_loop
    keepalive,  \* DUFunc._keepalive
    libs,       \* DUFunc._lower_me.libs
    identity,   \* DUFunc.identity: <<>> is None, <<v>> is the value v
    last,       \* the last operation on the object and how it ended
    pc,         \* impl_1d: position in the kernel
    array,      \* impl_1d: the rank-1 input
    initial,    \* impl_1d: <<>> is None, <<v>> is the value v
    op,         \* impl_1d: the elementwise function folded
    r,          \* impl_1d: the accumulator
    i,          \* impl_1d: the loop index
    nd,         \* reduce over one axis: position and locals of the kernel
    ax,         \* reduce over a tuple of axes: the current call and its result
    fx,         \* flat offset computation: arguments and the two results
    th          \* concurrent call-site typings: each caller's position

dufuncVars == <<frozen, overloads, loops, keepalive, libs, last>>
reduceVars == <<pc, array, initial, op, r, i>>
kernelVars == <<nd, ax, fx, th>>
vars == <<frozen, overloads, loops, keepalive, libs, identity, last,
          pc, array, initial, op, r, i, nd, ax, fx, th>>

-----------------------------------------------------------------------------
(* Bounds of the model *)

MaxTable == 2
MaxKeepalive == 2
MaxLen == 3
MaxVal == 2
MaxRank == 3
MaxCells == 8
MaxStride == 2

-----------------------------------------------------------------------------
(* Types and signatures *)

None == "None"
Types == {"int32", "float64"}
ArgTuples == Types \X Types
ReturnTypes == {None, "float64"}

\* A signature as add() receives it: argument types and an optional return type.
Signatures == [args : ArgTuples, ret : ReturnTypes]

\* A kernel that is not running.
Idle == [pc |-> "idle"]

\* "no signature": the (None, None) result of a lookup.
NoSig == [args |-> <<>>, ret |-> None]

Outcomes == {"ok", "compile_error", "finalize_error", "wrapper_error"}

Identities == {<<>>, <<0>>}

Min(S) == CHOOSE x \in S : \A y \in S : x <= y

\* np.can_cast(a, b, 'safe') on the modelled types.
TypeRank(t) == CASE t = "int32" -> 1 [] t = "float64" -> 2 [] OTHER -> 0

CanCastSafe(a, b) == TypeRank(a) <= TypeRank(b)

\* The return type the backend infers for argument types when none is given.
InferReturn(args) ==
    IF \E p \in 1..Len(args) : args[p] = "float64" THEN "float64" ELSE "int32"

\* A table that appends whether or not the signature is already a key.
StoreOverloadAppend(tbl, sig) == Append(tbl, sig)

\* Dispatcher.overloads[sig] = cres: a mapping keyed by signature.
StoreOverload(tbl, sig) ==
    IF \E k \in 1..Len(tbl) : tbl[k] = sig THEN tbl ELSE Append(tbl, sig)

\* _DUFunc._add_loop: the loop list, keyed by the dtype-code tuple.
AddLoop(lps, dtypenums) ==
    IF \E k \in 1..Len(lps) : lps[k] = dtypenums THEN lps
    ELSE Append(lps, dtypenums)

\* a is no more promoting than b, compared position by position, left first.
RECURSIVE LexLeq(_, _)
LexLeq(a, b) ==
    IF a = <<>> \/ b = <<>> THEN TRUE
    ELSE IF TypeRank(Head(a)) # TypeRank(Head(b))
         THEN TypeRank(Head(a)) < TypeRank(Head(b))
         ELSE LexLeq(Tail(a), Tail(b))

\* numpy_support.ufunc_find_matching_loop: a registered loop every input
\* type casts safely to, the least promoting one; NoSig when there is none.
FindMatchingLoop(lps, ewise_types) ==
    LET cand == {k \in 1..Len(lps) :
                    \A p \in 1..Len(ewise_types) :
                        CanCastSafe(ewise_types[p], lps[k].args[p])}
    IN IF cand = {} THEN NoSig
       ELSE lps[CHOOSE k \in cand :
                    \A j \in cand :
                        /\ LexLeq(lps[k].args, lps[j].args)
                        /\ (lps[j].args = lps[k].args => k <= j)]

-----------------------------------------------------------------------------
(* The DUFunc object as a record, and its methods as operators on it *)

State(f, o, l, k, b) ==
    [frozen |-> f, overloads |-> o, loops |-> l, keepalive |-> k, libs |-> b]

Current == State(frozen, overloads, loops, keepalive, libs)

\* _initialize: a new object, not frozen, nothing registered.
Fresh == State(FALSE, <<>>, <<>>, <<>>, <<>>)

\* sigutils.normalize_signature: (args, return_type).
NormalizeSignature(sig) == <<sig.args, sig.ret>>

\* The signature built with the argument types in reverse order.
SigForReversed(argtys, return_type) ==
    [args |-> [p \in 1..Len(argtys) |-> argtys[Len(argtys) + 1 - p]],
     ret |-> return_type]

\* _compile_for_argtys, lines 230-233: the signature handed to the backend.
SigFor(argtys, return_type) == [args |-> argtys, ret |-> return_type]

\* ufuncbuilder._compile_element_wise_function: the dispatcher compiles sig and
\* stores the result in its overloads under the compiled signature.
CompileElementWise(tbl, sig, outcome) ==
    IF outcome = "compile_error"
    THEN [ok |-> FALSE, overloads |-> tbl, cres |-> NoSig]
    ELSE LET full == [args |-> sig.args,
                      ret |-> IF sig.ret = None THEN InferReturn(sig.args)
                              ELSE sig.ret]
         IN [ok |-> TRUE, overloads |-> StoreOverload(tbl, full), cres |-> full]

Result(st, result, cres, compiles) ==
    [st |-> st, result |-> result, cres |-> cres, compiles |-> compiles]

\* _compile_for_argtys without its frozen check.
CompileForArgtysNoFrozenCheck(st, argtys, return_type, outcome) ==
    LET sig == SigFor(argtys, return_type)
        c == CompileElementWise(st.overloads, sig, outcome)
        st1 == [st EXCEPT !.overloads = c.overloads]
    IN IF ~c.ok THEN Result(st, "CompileError", NoSig, 1)
       ELSE IF outcome = "finalize_error" THEN Result(st1, "FinalizeError", NoSig, 1)
       ELSE IF outcome = "wrapper_error" THEN Result(st1, "WrapperError", NoSig, 1)
       ELSE Result([st1 EXCEPT !.loops = AddLoop(st.loops, c.cres),
                               !.keepalive = Append(st.keepalive, c.cres),
                               !.libs = Append(st.libs, c.cres)],
                   "ok", c.cres, 1)

\* _compile_for_argtys with its frozen check made after the backend compile.
CompileForArgtysLateCheck(st, argtys, return_type, outcome) ==
    LET res == CompileForArgtysNoFrozenCheck(st, argtys, return_type, outcome)
    IN IF st.frozen /\ res.result # "CompileError"
       THEN Result([st EXCEPT !.overloads = res.st.overloads],
                   "RuntimeError: compilation disabled", NoSig, 1)
       ELSE res

\* DUFunc._compile_for_argtys
CompileForArgtys(st, argtys, return_type, outcome) ==
    IF st.frozen
    THEN Result(st, "RuntimeError: compilation disabled", NoSig, 0)
    ELSE LET sig == SigFor(argtys, return_type)
             c == CompileElementWise(st.overloads, sig, outcome)
             st1 == [st EXCEPT !.overloads = c.overloads]
         IN IF ~c.ok THEN Result(st, "CompileError", NoSig, 1)
            ELSE IF outcome = "finalize_error"
                 THEN Result(st1, "FinalizeError", NoSig, 1)
            ELSE IF outcome = "wrapper_error"
                 THEN Result(st1, "WrapperError", NoSig, 1)
            ELSE Result([st1 EXCEPT !.loops = AddLoop(st.loops, c.cres),
                                    !.keepalive = Append(st.keepalive, c.cres),
                                    !.libs = Append(st.libs, c.cres)],
                        "ok", c.cres, 1)

\* DUFunc.add
AddSig(st, sig, outcome) ==
    LET n == NormalizeSignature(sig)
    IN CompileForArgtys(st, n[1], n[2], outcome)

\* DUFunc._compile_for_args: kws is "none", "out" or "bad" (an unexpected keyword).
CompileForArgs(st, argtys, kws, outcome) ==
    IF kws = "bad"
    THEN Result(st, "TypeError: unexpected keyword arguments", NoSig, 0)
    ELSE CompileForArgtys(st, argtys, None, outcome)

\* disable_compile flipping the flag instead of setting it.
DisableCompileToggle(st) ==
    IF ~(Len(st.overloads) > 0) THEN Result(st, "AssertionError", NoSig, 0)
    ELSE Result([st EXCEPT !.frozen = ~st.frozen], "ok", NoSig, 0)

\* disable_compile without its assertion.
DisableCompileNoAssert(st) ==
    Result([st EXCEPT !.frozen = TRUE], "ok", NoSig, 0)

\* DUFunc.disable_compile
DisableCompile(st) ==
    IF ~(Len(st.overloads) > 0) THEN Result(st, "AssertionError", NoSig, 0)
    ELSE Result([st EXCEPT !.frozen = TRUE], "ok", NoSig, 0)

\* find_ewise_function coercing to a matching loop whether frozen or not.
FindEwiseFunctionAlwaysCoerce(st, ewise_types) ==
    LET loop == FindMatchingLoop(st.loops, ewise_types)
        key == IF loop = NoSig THEN ewise_types
               ELSE SubSeq(loop.args \o <<loop.ret>>, 1, Len(ewise_types))
        hits == {k \in 1..Len(st.overloads) : st.overloads[k].args = key}
    IN IF hits = {} THEN NoSig ELSE st.overloads[Min(hits)]

\* DUFunc.find_ewise_function: the matching signature, or NoSig for (None, None).
FindEwiseFunction(st, ewise_types) ==
    LET loop == FindMatchingLoop(st.loops, ewise_types)
        key == IF st.frozen
               THEN SubSeq(loop.args \o <<loop.ret>>, 1, Len(ewise_types))
               ELSE ewise_types
        hits == {k \in 1..Len(st.overloads) : st.overloads[k].args = key}
    IN IF st.frozen /\ loop = NoSig THEN NoSig
       ELSE IF hits = {} THEN NoSig
       ELSE st.overloads[Min(hits)]

\* _type_me compiling on a miss whether frozen or not.
TypeMeNoFrozenCheck(st, ewise_types, outcome) ==
    LET f1 == FindEwiseFunction(st, ewise_types)
    IN IF f1 # NoSig THEN Result(st, "ok", f1, 0)
       ELSE LET c == CompileForArgtys(st, ewise_types, None, outcome)
            IN IF c.result # "ok" THEN Result(c.st, c.result, NoSig, c.compiles)
               ELSE LET f2 == FindEwiseFunction(c.st, ewise_types)
                    IN IF f2 = NoSig
                       THEN Result(c.st, "AssertionError", NoSig, c.compiles)
                       ELSE Result(c.st, "ok", f2, c.compiles)

\* DUFunc._type_me, up to the resolved element-wise signature.
TypeMe(st, ewise_types, outcome) ==
    LET f1 == FindEwiseFunction(st, ewise_types)
    IN IF f1 # NoSig THEN Result(st, "ok", f1, 0)
       ELSE IF st.frozen THEN Result(st, "TypeError: cannot call", NoSig, 0)
       ELSE LET c == CompileForArgtys(st, ewise_types, None, outcome)
            IN IF c.result # "ok" THEN Result(c.st, c.result, NoSig, c.compiles)
               ELSE LET f2 == FindEwiseFunction(c.st, ewise_types)
                    IN IF f2 = NoSig
                       THEN Result(c.st, "AssertionError", NoSig, c.compiles)
                       ELSE Result(c.st, "ok", f2, c.compiles)

\* DUFunc._reduce_states: the persisted state.
ReduceStates(st, ident) ==
    [identity |-> ident, frozen |-> st.frozen, siglist |-> st.overloads]

\* _rebuild, lines 129-130: add() for each persisted signature, in order; the
\* first failure ends the reconstruction.
RECURSIVE ReplayAdds(_, _, _)
ReplayAdds(st, siglist, outcomes) ==
    IF siglist = <<>> THEN Result(st, "ok", NoSig, 0)
    ELSE LET a == AddSig(st, Head(siglist), Head(outcomes))
         IN IF a.result # "ok" THEN a
            ELSE ReplayAdds(a.st, Tail(siglist), Tail(outcomes))

\* ufuncbuilder.parse_identity: the identity argument as the ufunc object's
\* identity code.
ParseIdentity(ident) ==
    IF ident = <<>> THEN "PyUFunc_None"
    ELSE IF ident[1] = 0 THEN "PyUFunc_Zero"
    ELSE "PyUFunc_One"

\* DUFunc.identity: the identity element read back from the ufunc object.
IdentityOf(code) ==
    CASE code = "PyUFunc_Zero" -> <<0>>
      [] code = "PyUFunc_One" -> <<1>>
      [] OTHER -> <<>>

\* _rebuild, line 127: the identity of the reconstructed object.
RebuiltIdentity(persisted) == IdentityOf(ParseIdentity(persisted.identity))

\* A reconstruction that applies the freeze before replaying the signatures.
RebuildFromFreezeFirst(persisted, outcomes) ==
    ReplayAdds([Fresh EXCEPT !.frozen = persisted.frozen],
               persisted.siglist, outcomes)

\* DUFunc._rebuild
RebuildFrom(persisted, outcomes) ==
    LET rep == ReplayAdds(Fresh, persisted.siglist, outcomes)
    IN IF rep.result # "ok" THEN rep
       ELSE IF persisted.frozen THEN DisableCompile(rep.st)
       ELSE Result(rep.st, "ok", NoSig, 0)

-----------------------------------------------------------------------------
(* The operations on the object *)

Last(o, res) == [op |-> o, result |-> res.result, compiles |-> res.compiles]

WithinBounds(st) ==
    /\ Len(st.overloads) <= MaxTable
    /\ Len(st.keepalive) <= MaxKeepalive

Install(st) ==
    /\ frozen' = st.frozen
    /\ overloads' = st.overloads
    /\ loops' = st.loops
    /\ keepalive' = st.keepalive
    /\ libs' = st.libs

Add(sig, outcome) ==
    LET res == AddSig(Current, sig, outcome)
    IN /\ WithinBounds(res.st)
       /\ Install(res.st)
       /\ last' = Last("add", res)
       /\ UNCHANGED <<identity, reduceVars, kernelVars>>

Call(argtys, kws, outcome) ==
    LET res == CompileForArgs(Current, argtys, kws, outcome)
    IN /\ WithinBounds(res.st)
       /\ Install(res.st)
       /\ last' = Last("compile_for_args", res)
       /\ UNCHANGED <<identity, reduceVars, kernelVars>>

Typing(ewise_types, outcome) ==
    LET res == TypeMe(Current, ewise_types, outcome)
    IN /\ WithinBounds(res.st)
       /\ Install(res.st)
       /\ last' = Last("type_me", res)
       /\ UNCHANGED <<identity, reduceVars, kernelVars>>

\* DUFuncKernel.__init__: the lookup made when a call is lowered.
Lookup(ewise_types) ==
    /\ last' = Last("find_ewise_function",
                    Result(Current,
                           IF FindEwiseFunction(Current, ewise_types) = NoSig
                           THEN "none" ELSE "found",
                           FindEwiseFunction(Current, ewise_types), 0))
    /\ UNCHANGED <<frozen, overloads, loops, keepalive, libs, identity,
                   reduceVars, kernelVars>>

\* The call ufunc(r, array[i]) of the reduction kernels, typed through _type_me.
ReduceCall(rty, dtype, outcome) ==
    LET res == TypeMe(Current, <<rty, dtype>>, outcome)
    IN /\ WithinBounds(res.st)
       /\ Install(res.st)
       /\ last' = Last("reduce", res)
       /\ UNCHANGED <<identity, reduceVars, kernelVars>>

Freeze ==
    LET res == DisableCompile(Current)
    IN /\ Install(res.st)
       /\ last' = Last("disable_compile", res)
       /\ UNCHANGED <<identity, reduceVars, kernelVars>>

\* Externalize the object and reconstruct it; the reconstructed object is the
\* one followed from then on.  A failed reconstruction yields no object.
Rebuild(outcomes) ==
    LET res == RebuildFrom(ReduceStates(Current, identity), outcomes)
    IN /\ IF res.result = "ok"
          THEN /\ Install(res.st)
               /\ identity' = RebuiltIdentity(ReduceStates(Current, identity))
          ELSE UNCHANGED <<frozen, overloads, loops, keepalive, libs,
                           identity>>
       /\ last' = Last("rebuild", res)
       /\ UNCHANGED <<reduceVars, kernelVars>>

\* Keyword cases of a natural call: no keyword with any backend outcome, or an
\* unexpected keyword (rejected before the backend is reached).
CallInputs == ({"none"} \X Outcomes) \cup {<<"bad", "ok">>}

\* Backend outcomes of a reconstruction: every replayed add succeeds, or the
\* k-th one fails in one of the ways a compile can fail.
RebuildOutcomes(n) ==
    {[k \in 1..n |-> "ok"]} \cup
    {[k \in 1..n |-> IF k = j THEN o ELSE "ok"] :
        j \in 1..n, o \in Outcomes \ {"ok"}}

Init ==
    /\ frozen = Fresh.frozen
    /\ overloads = Fresh.overloads
    /\ loops = Fresh.loops
    /\ keepalive = Fresh.keepalive
    /\ libs = Fresh.libs
    /\ identity \in Identities
    /\ last = Last("init", Result(Fresh, "ok", NoSig, 0))
    /\ pc = "idle"
    /\ array = <<>>
    /\ initial = <<>>
    /\ op = "add"
    /\ r = 0
    /\ i = 0
    /\ nd = Idle
    /\ ax = Idle
    /\ fx = Idle
    /\ th = Idle

Next ==
    \/ \E sig \in Signatures, outcome \in Outcomes : Add(sig, outcome)
    \/ \E argtys \in ArgTuples, ko \in CallInputs : Call(argtys, ko[1], ko[2])
    \/ \E ewise_types \in ArgTuples, outcome \in Outcomes :
          Typing(ewise_types, outcome)
    \/ \E ewise_types \in ArgTuples : Lookup(ewise_types)
    \/ \E dtype \in Types, outcome \in Outcomes : ReduceCall(dtype, dtype, outcome)
    \/ Freeze
    \/ \E outcomes \in RebuildOutcomes(Len(overloads)) : Rebuild(outcomes)

Spec == Init /\ [][Next]_vars

-----------------------------------------------------------------------------
(* ol_reduce, rank-1 case: the kernel impl_1d, one step per statement *)

Values == 0..MaxVal
Arrays == UNION {[1..n -> Values] : n \in 0..MaxLen}
Initials == {<<>>} \cup {<<v>> : v \in Values}
Ops == {"add", "sub", "max", "mix"}

\* The elementwise function ufunc(a, b) being folded.
Apply(f, a, b) ==
    CASE f = "add" -> a + b
      [] f = "sub" -> a - b
      [] f = "max" -> IF a >= b THEN a ELSE b
      [] OTHER -> 2 * a + b

\* impl_1d seeding with the identity element even when initial is given.
Impl1dSeedIdentityFirst(init, ident, arr) ==
    IF ident = <<>> /\ init = <<>> THEN arr[1]
    ELSE IF ident # <<>> THEN ident[1]
    ELSE init[1]

\* impl_1d, lines 412-417: the accumulator's first value.
Impl1dSeed(init, ident, arr) ==
    IF init = <<>> /\ ident = <<>> THEN arr[1]
    ELSE IF init = <<>> THEN ident[1]
    ELSE init[1]

EmptyUnseeded == initial = <<>> /\ identity = <<>> /\ array = <<>>

\* impl_1d, lines 412-419.  array[0] of an empty array is an unchecked read
\* (any value) or, with bounds checking on, an IndexError.
Impl1dStart ==
    /\ pc = "start"
    /\ IF EmptyUnseeded
       THEN \/ /\ pc' = "error"
               /\ UNCHANGED <<r, i>>
            \/ /\ r' \in Values
               /\ pc' = "loop"
               /\ i' = 0
       ELSE /\ r' = Impl1dSeed(initial, identity, array)
            /\ pc' = "loop"
            /\ i' = 0
    /\ UNCHANGED <<dufuncVars, kernelVars, identity, array, initial, op>>

\* impl_1d, lines 422-423: one iteration of "for i in range(sz)".
Impl1dStep ==
    /\ pc = "loop"
    /\ i < Len(array)
    /\ r' = Apply(op, r, array[i + 1])
    /\ i' = i + 1
    /\ UNCHANGED <<dufuncVars, kernelVars, identity, array, initial, op, pc>>

\* impl_1d, line 424: return r.
Impl1dReturn ==
    /\ pc = "loop"
    /\ ~(i < Len(array))
    /\ pc' = "done"
    /\ UNCHANGED <<dufuncVars, kernelVars, identity, array, initial, op, r, i>>

InitReduce ==
    /\ frozen = Fresh.frozen
    /\ overloads = Fresh.overloads
    /\ loops = Fresh.loops
    /\ keepalive = Fresh.keepalive
    /\ libs = Fresh.libs
    /\ identity \in Identities
    /\ last = Last("init", Result(Fresh, "ok", NoSig, 0))
    /\ pc = "start"
    /\ array \in Arrays
    /\ initial \in Initials
    /\ op \in Ops
    /\ r = 0
    /\ i = 0
    /\ nd = Idle
    /\ ax = Idle
    /\ fx = Idle
    /\ th = Idle

NextReduce ==
    \/ Impl1dStart
    \/ Impl1dStep
    \/ Impl1dReturn

SpecReduce == InitReduce /\ [][NextReduce]_vars

-----------------------------------------------------------------------------
(* ol_reduce: arrays, axis arguments and the helpers closed over by the    *)
(* generated kernels.  Coordinates and axes count from 0, as in the code;  *)
(* sequences count from 1.                                                 *)

RECURSIVE Prod(_)
Prod(s) == IF s = <<>> THEN 1 ELSE Head(s) * Prod(Tail(s))

\* An array: shape, element type and the elements in C order.  The result of
\* a rank-1 reduction is a scalar, kept as an array of shape <<>>.
NdArray(shape, dtype, data) == [shape |-> shape, dtype |-> dtype, data |-> data]

NoArray == NdArray(<<>>, None, <<>>)

Ranks == 1..MaxRank
Shapes ==
    {s \in UNION {[1..n -> 1..MaxCells] : n \in Ranks} : Prod(s) <= MaxCells}

\* The input arrays: every shape, the elements numbered in C order so that
\* each element is told apart from every other.
InputArrays(dtypes) ==
    {NdArray(s, t, [p \in 1..Prod(s) |-> p]) : s \in Shapes, t \in dtypes}

\* The axis argument as ol_reduce sees it at typing time.
IntAxis(k) == [kind |-> "int", v |-> <<k>>]
OmittedAxis == [kind |-> "omitted", v |-> <<0>>]
NoneAxis == [kind |-> "none", v |-> <<>>]
TupleAxis(t) == [kind |-> "tuple", v |-> t]

\* r.itemsize of the result array.
ItemSize(dtype) == CASE dtype = "int32" -> 4 [] OTHER -> 8

\* np.ndenumerate: the coordinate of the p-th element (from 0) in C order.
RECURSIVE Unravel(_, _)
Unravel(shape, p) ==
    IF shape = <<>> THEN <<>>
    ELSE <<p \div Prod(Tail(shape))>> \o
         Unravel(Tail(shape), p % Prod(Tail(shape)))

NdEnumerate(shape) == [p \in 1..Prod(shape) |-> Unravel(shape, p - 1)]

\* array[idx]: the position (from 0) of a coordinate in the C-ordered data.
RECURSIVE Ravel(_, _)
Ravel(shape, idx) ==
    IF shape = <<>> THEN 0
    ELSE Head(idx) * Prod(Tail(shape)) + Ravel(Tail(shape), Tail(idx))

\* Strides of one element along every axis.
StridesUniform(shape, itemsize) == [k \in 1..Len(shape) |-> itemsize]

\* r.strides of a freshly allocated (C-contiguous) array, in bytes.
Strides(shape, itemsize) ==
    [k \in 1..Len(shape) |->
        itemsize * Prod(SubSeq(shape, k + 1, Len(shape)))]

\* tuple_slice dropping the last position whatever pos is.
TupleSliceDropLast(tup, pos) == SubSeq(tup, 1, Len(tup) - 1)

RECURSIVE TupleSliceLoop(_, _, _, _, _)
TupleSliceLoop(tup, pos, s, ii, jj) ==
    IF ~(jj < Len(tup)) THEN s
    ELSE IF jj = pos THEN TupleSliceLoop(tup, pos, s, ii, jj + 1)
    ELSE TupleSliceLoop(tup, pos, [s EXCEPT ![ii + 1] = tup[jj + 1]],
                        ii + 1, jj + 1)

\* tuple_slice(tup, pos), lines 297-308: s starts as tup_init_m1.
TupleSlice(tup, pos) ==
    TupleSliceLoop(tup, pos, [k \in 1..(Len(tup) - 1) |-> 0], 0, 0)

RECURSIVE TupleSliceAppendLoop(_, _, _, _, _, _)
TupleSliceAppendLoop(tup, pos, val, s, ii, jj) ==
    IF ~(jj < Len(s)) THEN s
    ELSE IF jj = pos
         THEN TupleSliceAppendLoop(tup, pos, val,
                                   [s EXCEPT ![jj + 1] = val], ii, jj + 1)
         ELSE TupleSliceAppendLoop(tup, pos, val,
                                   [s EXCEPT ![jj + 1] = tup[ii + 1]],
                                   ii + 1, jj + 1)

\* tuple_slice_append(tup, pos, val), lines 310-324: s starts as tup_init.
TupleSliceAppend(tup, pos, val) ==
    TupleSliceAppendLoop(tup, pos, val, [k \in 1..(Len(tup) + 1) |-> 0], 0, 0)

\* An offset computation that sends every coordinate to cell 0.
ComputeFlatIdxZero(strides, itemsize, idx, axis) == 0

RECURSIVE ComputeFlatIdxLoop(_, _, _, _, _, _)
ComputeFlatIdxLoop(strides, idx, axis, flat_idx, ii, jj) ==
    IF ~(ii < Len(idx)) THEN flat_idx
    ELSE IF ii # axis
         THEN ComputeFlatIdxLoop(strides, idx, axis,
                                 flat_idx + strides[jj + 1] * idx[ii + 1],
                                 ii + 1, jj + 1)
         ELSE ComputeFlatIdxLoop(strides, idx, axis, flat_idx, ii + 1, jj)

\* compute_flat_idx, lines 392-401: the conditional-in-loop computation,
\* ended by a floor division.
ComputeFlatIdx(strides, itemsize, idx, axis) ==
    ComputeFlatIdxLoop(strides, idx, axis, 0, 0, 0) \div itemsize

\* The sum over ii in lo..hi-1 of strides[ii - shift] * idx[ii].
RECURSIVE GenBlockSum(_, _, _, _, _)
GenBlockSum(strides, idx, lo, hi, shift) ==
    IF ~(lo < hi) THEN 0
    ELSE strides[lo - shift + 1] * idx[lo + 1] +
         GenBlockSum(strides, idx, lo + 1, hi, shift)

\* gen_block, lines 330-362: the straight-line sum emitted for one axis.
GenBlock(block_pos, strides, idx) ==
    IF block_pos = 0
    THEN GenBlockSum(strides, idx, 1, Len(idx), 1)
    ELSE IF 0 < block_pos /\ block_pos < Len(idx) - 1
         THEN GenBlockSum(strides, idx, 0, block_pos, 0) +
              GenBlockSum(strides, idx, block_pos + 1, Len(idx), 1)
         ELSE GenBlockSum(strides, idx, 0, Len(idx) - 1, 0)

\* builder.sdiv: signed division rounding toward zero.
SDiv(a, b) == IF a >= 0 THEN a \div b ELSE -((-a) \div b)

\* The specialized computation taking the block of axis 0 whatever the axis.
ComputeFlatIdxAxis0(strides, itemsize, idx, axis) ==
    SDiv(GenBlock(0, strides, idx), itemsize)

\* compute_flat_idx__, lines 326-390: a switch on the axis over the blocks
\* (the last block is the default), then sdiv by the element size.
ComputeFlatIdx__(strides, itemsize, idx, axis) ==
    LET block == IF axis \in 0..(Len(idx) - 1) THEN axis ELSE Len(idx) - 1
    IN SDiv(GenBlock(block, strides, idx), itemsize)

\* find_min returning the first position whatever the elements are.
FindMinFirst(tup) == [idx |-> 0, e |-> tup[1]]

RECURSIVE FindMinLoop(_, _, _, _)
FindMinLoop(tup, idx, e, k) ==
    IF ~(k < Len(tup)) THEN [idx |-> idx, e |-> e]
    ELSE IF tup[k + 1] < e THEN FindMinLoop(tup, k, tup[k + 1], k + 1)
    ELSE FindMinLoop(tup, idx, e, k + 1)

\* find_min(tup), lines 403-409: position and value of the first minimum.
FindMin(tup) == FindMinLoop(tup, 0, tup[1], 0)

-----------------------------------------------------------------------------
(* ol_reduce: the guard, the choice of kernel, and the kernels as operators *)

NotReorderable == "TypeError: not reorderable"
NoImplementation == "TypeError: no implementation"
InvalidAxis == "ValueError: Invalid axis"

KernelResult(status, value) == [status |-> status, value |-> value]

\* ol_reduce, lines 278-287 and 488-499: the error raised at typing time or
\* the kernel returned.  An omitted axis reaches ol_reduce as the default
\* value, which is not a types.Integer.
OlReduce(ident, arr, axis) ==
    LET axis_int == axis.kind = "int"
        axis_int_tuple == axis.kind = "tuple"
        axis_tuple_size == IF axis_int_tuple THEN Len(axis.v) ELSE 0
    IN IF ident = <<>> /\
          ~(axis_int \/ (axis_int_tuple /\ axis_tuple_size = 1))
       THEN NotReorderable
       ELSE IF Len(arr.shape) = 1 THEN "impl_1d"
       ELSE IF axis_int_tuple THEN "impl_nd_axis_tuple"
       ELSE IF axis.kind \in {"int", "omitted"} THEN "impl_nd_axis_int"
       ELSE NoImplementation

RECURSIVE Impl1dLoop(_, _, _, _)
Impl1dLoop(f, acc, arr, k) ==
    IF ~(k < Len(arr)) THEN acc
    ELSE Impl1dLoop(f, Apply(f, acc, arr[k + 1]), arr, k + 1)

\* impl_1d, lines 411-424, on a non-empty array; the axis is not looked at.
Impl1d(f, arr, init, ident) ==
    NdArray(<<>>, arr.dtype,
            <<Impl1dLoop(f, Impl1dSeed(init, ident, arr.data), arr.data, 0)>>)

\* impl_nd_axis_int, lines 437-451: the result array with every cell seeded.
NdSeed(arr, axis, init, ident) ==
    LET shape == TupleSlice(arr.shape, axis)
        cells == NdEnumerate(shape)
    IN NdArray(shape, arr.dtype,
               [c \in 1..Prod(shape) |->
                   IF init = <<>> /\ ident = <<>>
                   THEN arr.data[Ravel(arr.shape,
                                       TupleSliceAppend(cells[c], axis, 0))
                                 + 1]
                   ELSE IF init = <<>> THEN ident[1]
                   ELSE init[1]])

\* impl_nd_axis_int, line 455: the offset of the cell the p-th input element
\* (from 1, in np.ndenumerate order) is folded into.
FlatPos(res, arr, axis, p) ==
    ComputeFlatIdx(Strides(res.shape, ItemSize(res.dtype)),
                   ItemSize(res.dtype), NdEnumerate(arr.shape)[p], axis)

\* impl_nd_axis_int, lines 454-457: one iteration of the fold loop.
NdFoldStep(f, res, arr, axis, p) ==
    LET flat_pos == FlatPos(res, arr, axis, p)
    IN [res EXCEPT !.data[flat_pos + 1] =
                       Apply(f, res.data[flat_pos + 1], arr.data[p])]

RECURSIVE NdFoldFrom(_, _, _, _, _)
NdFoldFrom(f, res, arr, axis, p) ==
    IF p > Len(arr.data) THEN res
    ELSE NdFoldFrom(f, NdFoldStep(f, res, arr, axis, p), arr, axis, p + 1)

AxisInRange(arr, k) == ~(k < 0 \/ k >= Len(arr.shape))

\* impl_nd_axis_int, lines 426-465.
ImplNdAxisInt(f, arr, k, init, ident) ==
    IF ~AxisInRange(arr, k) THEN KernelResult(InvalidAxis, NoArray)
    ELSE KernelResult("ok",
                      NdFoldFrom(f, NdSeed(arr, k, init, ident), arr, k, 1))

\* impl_nd_axis_tuple, lines 481-485: the tuple handed to the recursive call,
\* built from axis_tup, a tuple of zeros one shorter than axis.
AxisTup(axis, min_idx) ==
    [k \in 1..(Len(axis) - 1) |-> IF k - 1 # min_idx THEN axis[k] ELSE 0]

\* ufunc.reduce(array, axis, initial=init) as ol_reduce resolves it,
\* impl_nd_axis_tuple (lines 467-486) calling it again.
RECURSIVE Reduce(_, _, _, _, _)
Reduce(ident, f, arr, axis, init) ==
    LET kernel == OlReduce(ident, arr, axis)
    IN IF kernel \in {NotReorderable, NoImplementation}
       THEN KernelResult(kernel, NoArray)
       ELSE IF kernel = "impl_1d"
       THEN KernelResult("ok", Impl1d(f, arr, init, ident))
       ELSE IF kernel = "impl_nd_axis_int"
       THEN ImplNdAxisInt(f, arr, axis.v[1], init, ident)
       ELSE LET m == FindMin(axis.v)
                first == Reduce(ident, f, arr, IntAxis(m.e), init)
            IN IF first.status # "ok" \/ Len(axis.v) = 1 THEN first
               ELSE IF Len(axis.v) = 2
               THEN Reduce(ident, f, first.value,
                           IntAxis(axis.v[((m.idx + 1) % 2) + 1] - 1), <<>>)
               ELSE Reduce(ident, f, first.value,
                           TupleAxis(AxisTup(axis.v, m.idx)), <<>>)

-----------------------------------------------------------------------------
(* ol_reduce over one axis: reduce(array, axis=k, initial=init) resolved by *)
(* ol_reduce and run by impl_1d or impl_nd_axis_int, one step per statement *)

NdInitials == {<<>>, <<1>>}
NdOps == {"add", "mix"}
IntAxes == {OmittedAxis} \cup {IntAxis(k) : k \in (-1)..MaxRank}

objectVars == <<dufuncVars, identity, reduceVars, th>>

\* ol_reduce, lines 272-295 and 488-499: the guard and the choice of kernel.
NdCall ==
    /\ nd.pc = "call"
    /\ nd' = [nd EXCEPT !.pc = OlReduce(identity, nd.array, nd.axis)]
    /\ UNCHANGED <<objectVars, ax, fx>>

\* impl_1d, lines 411-424, as one step (SpecReduce has its statements).
NdImpl1d ==
    /\ nd.pc = "impl_1d"
    /\ nd' = [nd EXCEPT !.pc = "done",
                        !.r = Impl1d(nd.f, nd.array, nd.initial, identity)]
    /\ UNCHANGED <<objectVars, ax, fx>>

\* impl_nd_axis_int, lines 427-435: the axis checks.
NdCheckAxis ==
    /\ nd.pc = "impl_nd_axis_int"
    /\ nd' = [nd EXCEPT !.pc = IF AxisInRange(nd.array, nd.axis.v[1])
                               THEN "seed" ELSE InvalidAxis]
    /\ UNCHANGED <<objectVars, ax, fx>>

\* impl_nd_axis_int, lines 437-451: allocate and seed the result.
NdSeedCells ==
    /\ nd.pc = "seed"
    /\ nd' = [nd EXCEPT !.pc = "fold",
                        !.r = NdSeed(nd.array, nd.axis.v[1], nd.initial,
                                     identity)]
    /\ UNCHANGED <<objectVars, ax, fx>>

\* impl_nd_axis_int, lines 454-457: one iteration over np.ndenumerate(array).
NdFold ==
    /\ nd.pc = "fold"
    /\ nd.pos < Len(nd.array.data)
    /\ nd' = [nd EXCEPT !.pos = nd.pos + 1,
                        !.r = NdFoldStep(nd.f, nd.r, nd.array, nd.axis.v[1],
                                         nd.pos + 1),
                        !.trace = Append(nd.trace,
                                         FlatPos(nd.r, nd.array, nd.axis.v[1],
                                                 nd.pos + 1))]
    /\ UNCHANGED <<objectVars, ax, fx>>

\* impl_nd_axis_int, line 465: return r.
NdReturn ==
    /\ nd.pc = "fold"
    /\ ~(nd.pos < Len(nd.array.data))
    /\ nd' = [nd EXCEPT !.pc = "done"]
    /\ UNCHANGED <<objectVars, ax, fx>>

InitObject ==
    /\ frozen = Fresh.frozen
    /\ overloads = Fresh.overloads
    /\ loops = Fresh.loops
    /\ keepalive = Fresh.keepalive
    /\ libs = Fresh.libs
    /\ identity \in Identities
    /\ last = Last("init", Result(Fresh, "ok", NoSig, 0))
    /\ pc = "idle"
    /\ array = <<>>
    /\ initial = <<>>
    /\ op = "add"
    /\ r = 0
    /\ i = 0

InitNd ==
    /\ InitObject
    /\ nd \in [pc : {"call"}, array : InputArrays(Types), axis : IntAxes,
               initial : NdInitials, f : NdOps, r : {NoArray}, pos : {0},
               trace : {<<>>}]
    /\ ax = Idle
    /\ fx = Idle
    /\ th = Idle

NextNd ==
    \/ NdCall
    \/ NdImpl1d
    \/ NdCheckAxis
    \/ NdSeedCells
    \/ NdFold
    \/ NdReturn

SpecNd == InitNd /\ [][NextNd]_vars

-----------------------------------------------------------------------------
(* ol_reduce over a tuple of axes: impl_nd_axis_tuple, one step per call of *)
(* ufunc.reduce it makes.  Its last call is a tail call, so the call being  *)
(* run (carr, caxis, cinit) replaces the one that made it.                  *)

RECURSIVE Injective(_)
Injective(t) ==
    IF t = <<>> THEN TRUE
    ELSE (\A k \in 1..Len(Tail(t)) : Tail(t)[k] # Head(t)) /\ Injective(Tail(t))

AxisTuples ==
    {t \in UNION {[1..n -> 0..(MaxRank - 1)] : n \in Ranks} : Injective(t)}

AxisArgs ==
    {OmittedAxis, NoneAxis} \cup {IntAxis(k) : k \in 0..(MaxRank - 1)}
        \cup {TupleAxis(t) : t \in AxisTuples}

\* ol_reduce on the current call; every kernel but impl_nd_axis_tuple runs to
\* its end.
AxCall ==
    /\ ax.pc = "call"
    /\ IF OlReduce(identity, ax.carr, ax.caxis) = "impl_nd_axis_tuple"
       THEN ax' = [ax EXCEPT !.pc = "impl_nd_axis_tuple"]
       ELSE LET res == Reduce(identity, ax.f, ax.carr, ax.caxis, ax.cinit)
            IN ax' = [ax EXCEPT !.pc = IF res.status = "ok" THEN "returned"
                                       ELSE "raised",
                                !.result = res]
    /\ UNCHANGED <<objectVars, nd, fx>>

\* impl_nd_axis_tuple, lines 467-486: reduce over the smallest axis, then
\* return r or reduce r over what is left.
AxTuple ==
    /\ ax.pc = "impl_nd_axis_tuple"
    /\ LET m == FindMin(ax.caxis.v)
           first == Reduce(identity, ax.f, ax.carr, IntAxis(m.e), ax.cinit)
       IN IF first.status # "ok"
          THEN ax' = [ax EXCEPT !.pc = "raised", !.result = first]
          ELSE IF Len(ax.caxis.v) = 1
          THEN ax' = [ax EXCEPT !.pc = "returned", !.result = first]
          ELSE ax' = [ax EXCEPT
                        !.pc = "call",
                        !.carr = first.value,
                        !.cinit = <<>>,
                        !.caxis =
                            IF Len(ax.caxis.v) = 2
                            THEN IntAxis(ax.caxis.v[((m.idx + 1) % 2) + 1] - 1)
                            ELSE TupleAxis(AxisTup(ax.caxis.v, m.idx))]
    /\ UNCHANGED <<objectVars, nd, fx>>

InitAxes ==
    /\ InitObject
    /\ nd = Idle
    /\ \E a \in InputArrays({"float64"}), t \in AxisArgs, v \in NdInitials,
          g \in NdOps :
          ax = [pc |-> "call", array |-> a, axis |-> t, initial |-> v,
                f |-> g, carr |-> a, caxis |-> t, cinit |-> v,
                result |-> KernelResult("none", NoArray)]
    /\ fx = Idle
    /\ th = Idle

NextAxes ==
    \/ AxCall
    \/ AxTuple

SpecAxes == InitAxes /\ [][NextAxes]_vars

-----------------------------------------------------------------------------
(* The two flat offset computations applied to the same arguments *)

\* Byte strides: whole and half multiples of the element size.
StrideValues(itemsize) == {m * (itemsize \div 2) : m \in 0..(2 * MaxStride)}

\* Coordinates: those of the elements of the arrays of the model.
Coordinates(n) == {c \in [1..n -> 0..(MaxCells - 1)] :
                      Prod([k \in 1..n |-> c[k] + 1]) <= MaxCells}

FlatFallback ==
    /\ fx.pc = "call"
    /\ fx' = [fx EXCEPT !.pc = "fallback",
                        !.slow = ComputeFlatIdx(fx.strides, fx.itemsize,
                                                fx.idx, fx.axis)]
    /\ UNCHANGED <<objectVars, nd, ax>>

FlatSpecialized ==
    /\ fx.pc = "fallback"
    /\ fx' = [fx EXCEPT !.pc = "done",
                        !.fast = ComputeFlatIdx__(fx.strides, fx.itemsize,
                                                  fx.idx, fx.axis)]
    /\ UNCHANGED <<objectVars, nd, ax>>

InitFlat ==
    /\ InitObject
    /\ nd = Idle
    /\ ax = Idle
    /\ th = Idle
    /\ \E n \in Ranks, t \in Types :
          fx \in [pc : {"call"}, itemsize : {ItemSize(t)},
                  strides : [1..(n - 1) -> StrideValues(ItemSize(t))],
                  idx : Coordinates(n), axis : 0..(n - 1),
                  slow : {0}, fast : {0}]

NextFlat ==
    \/ FlatFallback
    \/ FlatSpecialized

SpecFlat == InitFlat /\ [][NextFlat]_vars

-----------------------------------------------------------------------------
(* Concurrent call-site typings: two callers run _type_me on one object, a  *)
(* step of a caller being one statement that reads or writes the object,    *)
(* while disable_compile may run between any two steps.  Nothing in the     *)
(* class serializes them.                                                   *)

\* The errors raised when the function is frozen.
Disabled == "RuntimeError: compilation disabled"
NoOverload == "TypeError: cannot call"

Callers == {1, 2}

raceFrame == <<identity, last, reduceVars, nd, ax, fx>>

\* The object after one add((t, t)) every step of which succeeded.
AfterAdd(t) == AddSig(Fresh, [args |-> <<t, t>>, ret |-> None], "ok").st

\* _type_me, line 555: the first lookup.
RaceFind(c) ==
    /\ th[c].pc = "find"
    /\ LET f == FindEwiseFunction(Current, th[c].types)
       IN th' = [th EXCEPT ![c].pc = IF f = NoSig THEN "miss" ELSE "returned",
                           ![c].missed = (f = NoSig),
                           ![c].sig = f]
    /\ UNCHANGED <<frozen, overloads, loops, keepalive, libs, raceFrame>>

\* _type_me, lines 556-561: the frozen check after a miss.
RaceMiss(c) ==
    /\ th[c].pc = "miss"
    /\ th' = [th EXCEPT ![c].pc = IF frozen THEN NoOverload ELSE "enter"]
    /\ UNCHANGED <<frozen, overloads, loops, keepalive, libs, raceFrame>>

\* _compile_for_argtys, lines 227-228: its own frozen check.
RaceEnter(c) ==
    /\ th[c].pc = "enter"
    /\ th' = [th EXCEPT ![c].pc = IF frozen THEN Disabled ELSE "compile"]
    /\ UNCHANGED <<frozen, overloads, loops, keepalive, libs, raceFrame>>

\* _compile_for_argtys, lines 230-235: the backend compiles and stores.
RaceCompile(c) ==
    /\ th[c].pc = "compile"
    /\ LET b == CompileElementWise(overloads, SigFor(th[c].types, None), "ok")
       IN /\ overloads' = b.overloads
          /\ th' = [th EXCEPT ![c].pc = "register", ![c].cres = b.cres]
    /\ UNCHANGED <<frozen, loops, keepalive, libs, raceFrame>>

\* _compile_for_argtys, lines 236-243: wrapper, loop, keepalive, libs.
RaceRegister(c) ==
    /\ th[c].pc = "register"
    /\ loops' = AddLoop(loops, th[c].cres)
    /\ keepalive' = Append(keepalive, th[c].cres)
    /\ libs' = Append(libs, th[c].cres)
    /\ th' = [th EXCEPT ![c].pc = "refind"]
    /\ UNCHANGED <<frozen, overloads, raceFrame>>

\* _type_me, lines 563-564: the second lookup and its assertion.
RaceRefind(c) ==
    /\ th[c].pc = "refind"
    /\ LET f == FindEwiseFunction(Current, th[c].types)
       IN th' = [th EXCEPT ![c].pc = IF f = NoSig THEN "AssertionError"
                                     ELSE "returned",
                           ![c].sig = f]
    /\ UNCHANGED <<frozen, overloads, loops, keepalive, libs, raceFrame>>

\* disable_compile, lines 173-179, between two steps of the callers.
RaceFreeze ==
    /\ ~frozen
    /\ Install(DisableCompile(Current).st)
    /\ UNCHANGED <<th, raceFrame>>

InitRace ==
    /\ \E st \in {Fresh} \cup {AfterAdd(t) : t \in Types} :
          /\ frozen = st.frozen
          /\ overloads = st.overloads
          /\ loops = st.loops
          /\ keepalive = st.keepalive
          /\ libs = st.libs
    /\ identity \in Identities
    /\ last = Last("init", Result(Fresh, "ok", NoSig, 0))
    /\ pc = "idle"
    /\ array = <<>>
    /\ initial = <<>>
    /\ op = "add"
    /\ r = 0
    /\ i = 0
    /\ nd = Idle
    /\ ax = Idle
    /\ fx = Idle
    /\ th \in [Callers -> [pc : {"find"}, types : ArgTuples, missed : {FALSE},
                           sig : {NoSig}, cres : {NoSig}]]

NextRace ==
    \/ \E c \in Callers : RaceFind(c)
    \/ \E c \in Callers : RaceMiss(c)
    \/ \E c \in Callers : RaceEnter(c)
    \/ \E c \in Callers : RaceCompile(c)
    \/ \E c \in Callers : RaceRegister(c)
    \/ \E c \in Callers : RaceRefind(c)
    \/ RaceFreeze

SpecRace == InitRace /\ [][NextRace]_vars

-----------------------------------------------------------------------------
(* Properties *)

InTable(sig) == \E k \in 1..Len(overloads) : overloads[k] = sig

ExactEntry(e) == \E k \in 1..Len(overloads) : overloads[k].args = e

Castable(e, sig) == \A p \in 1..Len(e) : CanCastSafe(e[p], sig.args[p])

\* C1: once the function is frozen, every explicit compile request (add, which
\* goes through _compile_for_argtys), for every signature and every backend
\* behaviour, fails with the "compilation disabled" error and leaves the
\* table, the loop list and the keepalive list as they were.
C1_FrozenCompileRejected ==
    frozen =>
        \A sig \in Signatures, outcome \in Outcomes :
            LET res == AddSig(Current, sig, outcome)
            IN /\ res.result = Disabled
               /\ res.st.overloads = overloads
               /\ res.st.loops = loops
               /\ res.st.keepalive = keepalive

\* C1 witness: an add was made on a frozen function and was rejected, with room
\* left in the table for a signature not yet registered.
C1_Witness ==
    /\ frozen
    /\ last.op = "add"
    /\ last.result = Disabled
    /\ \E sig \in Signatures : ~ExactEntry(sig.args)

\* C2: after the freeze, no operation on the object (add, natural call,
\* call-site typing, lookup, reduce, a second freeze) changes the table.
C2_FrozenTableFixed ==
    [][(frozen /\ last'.op # "rebuild") => overloads' = overloads]_vars

\* C2 witness: the call of a reduction was typed on a frozen function whose
\* table does not hold every signature.
C2_Witness ==
    /\ frozen
    /\ last.op = "reduce"
    /\ \E e \in ArgTuples : ~ExactEntry(e)

\* C3: frozen implies a non-empty table, in every state (reconstructed objects
\* included), and disable_compile on an empty table does not set the flag.
C3_FrozenNonEmpty ==
    /\ frozen => Len(overloads) > 0
    /\ Len(overloads) = 0 => ~DisableCompile(Current).st.frozen

\* C3 witness: disable_compile was called on an empty table and failed.
C3_Witness ==
    /\ last.op = "disable_compile"
    /\ last.result = "AssertionError"
    /\ Len(overloads) = 0
    /\ ~frozen

\* C4: no two entries of the table share a signature, so a lookup by a
\* registered signature finds exactly one entry.
C4_UniqueSignatures ==
    \A j \in 1..Len(overloads) :
        Cardinality({k \in 1..Len(overloads) : overloads[k] = overloads[j]}) = 1

\* C4 witness: the same signature was compiled twice on an unfrozen function.
C4_Witness ==
    /\ ~frozen
    /\ \E j, k \in 1..Len(keepalive) : j # k /\ keepalive[j] = keepalive[k]

\* C5: on an unfrozen function find_ewise_function returns an entry exactly when
\* the table holds a signature whose input types equal the requested tuple
\* position by position, the entry returned has those input types, and an
\* entry reachable only by casting is never returned.
C5_UnfrozenExactMatch ==
    ~frozen =>
        \A e \in ArgTuples :
            LET f == FindEwiseFunction(Current, e)
            IN /\ (f # NoSig) <=> ExactEntry(e)
               /\ f # NoSig => (InTable(f) /\ f.args = e)

\* C5 witness: a lookup on an unfrozen function returned (None, None) while the
\* only registered signature, (float64, float64), is a safe cast target of
\* every other request.
C5_Witness ==
    /\ ~frozen
    /\ last.op = "find_ewise_function"
    /\ last.result = "none"
    /\ overloads = <<[args |-> <<"float64", "float64">>, ret |-> "float64"]>>
    /\ loops = overloads

\* C6 (as claimed): on a frozen function a lookup for types without an exact
\* entry returns an entry of the table every requested type casts safely to,
\* and returns (None, None) only when no signature of the table qualifies.
C6_FrozenPromotion ==
    frozen =>
        \A e \in ArgTuples :
            ~ExactEntry(e) =>
                LET f == FindEwiseFunction(Current, e)
                IN /\ f # NoSig => (InTable(f) /\ Castable(e, f))
                   /\ f = NoSig =>
                        ~\E k \in 1..Len(overloads) : Castable(e, overloads[k])

\* C7: in call-site typing on an unfrozen function, after a miss the function
\* is compiled for exactly the requested types: the assertion "sig is not
\* None" never fails, a successful backend compile grows the table by the one
\* signature with those input types, and when the compile-and-register
\* succeeds the second resolution returns that entry.
C7_CompileThenResolve ==
    ~frozen =>
        \A e \in ArgTuples, outcome \in Outcomes :
            ~ExactEntry(e) =>
                LET t == TypeMe(Current, e, outcome)
                IN /\ t.result # "AssertionError"
                   /\ t.compiles = 1
                   /\ outcome # "compile_error" =>
                        \E ret \in Types :
                            t.st.overloads =
                                Append(overloads, [args |-> e, ret |-> ret])
                   /\ outcome = "ok" =>
                        /\ t.result = "ok"
                        /\ t.cres.args = e
                        /\ t.cres = t.st.overloads[Len(t.st.overloads)]

\* C7 witness: a call-site typing missed, compiled and resolved.
C7_Witness ==
    /\ ~frozen
    /\ last.op = "type_me"
    /\ last.result = "ok"
    /\ last.compiles = 1

\* C8: in call-site typing on a frozen function, element types with neither an
\* exact entry nor a safe-cast target fail with the "cannot call" TypeError,
\* with no backend compile and the object unchanged.
C8_FrozenNoOverload ==
    frozen =>
        \A e \in ArgTuples, outcome \in Outcomes :
            (~\E k \in 1..Len(overloads) : Castable(e, overloads[k])) =>
                TypeMe(Current, e, outcome) = Result(Current, NoOverload, NoSig, 0)

\* C8 witness: a typing on a frozen function failed with "cannot call", in a
\* state where every request the lookup misses has no safe-cast target at all.
C8_Witness ==
    /\ frozen
    /\ last.op = "type_me"
    /\ last.result = NoOverload
    /\ \A e \in ArgTuples :
          FindEwiseFunction(Current, e) = NoSig =>
              ~\E k \in 1..Len(overloads) : Castable(e, overloads[k])

\* The left fold of f over seq in increasing index order, starting from seed.
RECURSIVE FoldLeft(_, _, _)
FoldLeft(f, seed, seq) ==
    IF seq = <<>> THEN seed
    ELSE FoldLeft(f, Apply(f, seed, Head(seq)), Tail(seq))

\* C9: with an initial value or an identity element, the rank-1 reduction
\* returns the left fold of the operation over all elements in increasing
\* index order from the seed: initial if given, else the identity element.
C9_SeededFold ==
    (pc = "done" /\ (initial # <<>> \/ identity # <<>>)) =>
        r = FoldLeft(op, IF initial # <<>> THEN initial[1] ELSE identity[1], array)

\* C9 witness: a finished reduction of at least two elements by a
\* non-commutative operation, with an initial value that differs from the
\* identity element.
C9_Witness ==
    /\ pc = "done"
    /\ op = "sub"
    /\ Len(array) >= 2
    /\ initial # <<>>
    /\ identity # <<>>
    /\ initial # identity

\* C10 (as claimed): with neither an initial value nor an identity element the
\* accumulator starts as A[0] and the fold runs over A[1..n-1], every element
\* contributing exactly once.
C10_FirstElementConsumed ==
    (pc = "done" /\ initial = <<>> /\ identity = <<>> /\ Len(array) >= 1) =>
        r = FoldLeft(op, array[1], Tail(array))

-----------------------------------------------------------------------------
(* Properties of the reduction kernels *)

SingleAxis(axis) ==
    \/ axis.kind \in {"int", "omitted"}
    \/ axis.kind = "tuple" /\ Len(axis.v) = 1

\* C11: for a function with no identity element, reduce is rejected as "not
\* reorderable" exactly when the axis is neither a single integer (given or
\* left at its default 0) nor a one-element tuple; a function with an
\* identity element is never rejected by the guard.
C11_GuardExact ==
    ax.pc # "call" =>
        LET rejected ==
                OlReduce(identity, ax.array, ax.axis) = NotReorderable
        IN /\ identity = <<>> => (rejected <=> ~SingleAxis(ax.axis))
           /\ identity # <<>> => ~rejected
           /\ rejected => ax.pc = "raised" /\ ax.result.status = NotReorderable

\* A tuple with position k (from 0) removed, the rest in their order.
DropAxis(s, k) == [m \in 1..(Len(s) - 1) |-> IF m <= k THEN s[m] ELSE s[m + 1]]

\* C12: for an array of rank N >= 2 and an integer axis k in [0, N), the
\* result of reduce(A, axis=k) has rank N-1 and its shape is A's shape with
\* position k removed, the remaining extents in their original order.
C12_ResultShape ==
    (nd.pc \in {"fold", "done"} /\ Len(nd.array.shape) >= 2) =>
        /\ AxisInRange(nd.array, nd.axis.v[1])
        /\ Len(nd.r.shape) = Len(nd.array.shape) - 1
        /\ nd.r.shape = DropAxis(nd.array.shape, nd.axis.v[1])
        /\ Len(nd.r.data) = Prod(DropAxis(nd.array.shape, nd.axis.v[1]))

\* C12 witness: a reduction of a rank-3 array with three different extents
\* over its middle axis has returned.
C12_Witness ==
    /\ nd.pc = "done"
    /\ nd.array.shape = <<2, 1, 4>>
    /\ nd.axis = IntAxis(1)
    /\ nd.r.shape = <<2, 4>>

ValidAxes(arr, t) == \A k \in 1..Len(t) : AxisInRange(arr, t[k])

\* C13: for a function with an identity element and two distinct axes i, j
\* valid for A, reduce(A, axis=(i, j)) returns what
\* reduce(reduce(A, axis=min(i, j)), axis=max(i, j) - 1) returns, in either
\* order of i and j in the tuple; the initial value goes to the first (inner)
\* reduction only.
C13_TwoAxes ==
    (/\ ax.pc \in {"returned", "raised"}
     /\ identity # <<>>
     /\ ax.axis.kind = "tuple"
     /\ Len(ax.axis.v) = 2
     /\ ValidAxes(ax.array, ax.axis.v)) =>
        LET lo == IF ax.axis.v[1] < ax.axis.v[2]
                  THEN ax.axis.v[1] ELSE ax.axis.v[2]
            hi == IF ax.axis.v[1] < ax.axis.v[2]
                  THEN ax.axis.v[2] ELSE ax.axis.v[1]
            inner == Reduce(identity, ax.f, ax.array, IntAxis(lo), ax.initial)
            outer == Reduce(identity, ax.f, inner.value, IntAxis(hi - 1), <<>>)
        IN /\ inner.status = "ok"
           /\ outer.status = "ok"
           /\ ax.pc = "returned"
           /\ ax.result = outer
           /\ Reduce(identity, ax.f, ax.array,
                     TupleAxis(<<ax.axis.v[2], ax.axis.v[1]>>), ax.initial)
                = outer

\* C13 witness: reduce over the axes (1, 0), given larger first, of a rank-3
\* array with an initial value and an order-sensitive function has returned.
C13_Witness ==
    /\ ax.pc = "returned"
    /\ identity # <<>>
    /\ ax.array.shape = <<2, 2, 2>>
    /\ ax.axis = TupleAxis(<<1, 0>>)
    /\ ax.initial = <<1>>
    /\ ax.f = "mix"
    /\ ax.result.value.shape = <<2>>

\* C14: reduce with an integer axis outside [0, rank) raises the "Invalid
\* axis" ValueError and produces no result, for every rank >= 1 and for
\* negative axes.
C14_InvalidAxisRaises ==
    (/\ nd.axis.kind = "int"
     /\ ~AxisInRange(nd.array, nd.axis.v[1])
     /\ nd.pc \notin {"call", "impl_1d", "impl_nd_axis_int"}) =>
        /\ nd.pc = InvalidAxis
        /\ nd.r = NoArray

-----------------------------------------------------------------------------
(* Properties of reconstruction, freezing and registration *)

SigSet(tbl) == {tbl[k] : k \in 1..Len(tbl)}

\* C15: externalizing the object and reconstructing it replays every
\* persisted signature through add on the unfrozen new object and freezes it
\* only afterwards: no replayed add is rejected as "compilation disabled",
\* and when every replayed compile succeeds the new object has the same
\* identity element, the same set of registered signatures and the same
\* frozen flag.
C15_RoundTrip ==
    \A outcomes \in RebuildOutcomes(Len(overloads)) :
        LET persisted == ReduceStates(Current, identity)
            res == RebuildFrom(persisted, outcomes)
        IN /\ res.result # Disabled
           /\ (\A k \in 1..Len(outcomes) : outcomes[k] = "ok") =>
                  res.result = "ok"
           /\ res.result = "ok" =>
                  /\ SigSet(res.st.overloads) = SigSet(overloads)
                  /\ res.st.frozen = frozen
                  /\ RebuiltIdentity(persisted) = identity

\* C15 witness: a frozen function with two registered signatures and an
\* identity element has just been reconstructed, and is frozen.
C15_Witness ==
    /\ last.op = "rebuild"
    /\ last.result = "ok"
    /\ frozen
    /\ Len(overloads) = 2
    /\ identity = <<0>>

\* C16: the frozen flag is monotone: no step of the object (add, call,
\* typing, lookup, reduce, a second disable_compile, reconstruction) takes a
\* frozen function to one that is not frozen.
C16_FrozenMonotone == [][frozen => frozen']_vars

\* C16 witness: a frozen function with a full table has typed a reduce call
\* and is still frozen.
C16_Witness ==
    /\ frozen
    /\ last.op = "reduce"
    /\ last.result = "ok"
    /\ Len(overloads) = MaxTable

\* C17: for a tuple of three or more valid axes, after the smallest axis is
\* eliminated the recursive call gets a tuple one element shorter made of
\* exactly the remaining axes, each one greater than the eliminated axis
\* decremented by one.
C17_ShortenedTuple ==
    (/\ ax.pc = "impl_nd_axis_tuple"
     /\ Len(ax.caxis.v) >= 3
     /\ ValidAxes(ax.carr, ax.caxis.v)) =>
        LET m == FindMin(ax.caxis.v)
            next == AxisTup(ax.caxis.v, m.idx)
            remaining == {ax.caxis.v[k] :
                             k \in (1..Len(ax.caxis.v)) \ {m.idx + 1}}
        IN /\ Len(next) = Len(ax.caxis.v) - 1
           /\ {next[k] : k \in 1..Len(next)} =
                  {IF a > m.e THEN a - 1 ELSE a : a \in remaining}

\* The coordinate whose component k (from 0) is t and whose other components
\* are those of c, in order.
InsertAxis(c, k, t) ==
    [m \in 1..(Len(c) + 1) |->
        IF m <= k THEN c[m] ELSE IF m = k + 1 THEN t ELSE c[m - 1]]

\* The element of the input at index t of the lane of result cell c.
LaneElem(arr, k, c, t) == arr.data[Ravel(arr.shape, InsertAxis(c, k, t)) + 1]

\* The indices along axis k of the lane of cell c visited among the first n
\* input coordinates.
LaneVisited(arr, k, c, n) ==
    {t \in 0..(arr.shape[k + 1] - 1) :
        Ravel(arr.shape, InsertAxis(c, k, t)) < n}

\* C18: for rank N >= 2 and a valid integer axis k, every result cell is
\* first seeded (initial if given, else the identity if given, else a copy of
\* the input element at index 0 of the cell's lane); then every input
\* coordinate is visited exactly once and its element is folded into the
\* cell whose coordinate is the input coordinate with component k dropped;
\* within one cell the elements are folded in increasing index order along k.
C18_SeedThenFold ==
    (nd.pc \in {"fold", "done"} /\ Len(nd.array.shape) >= 2) =>
        LET k == nd.axis.v[1]
            rshape == DropAxis(nd.array.shape, k)
            coords == NdEnumerate(nd.array.shape)
            seed(c) == IF nd.initial # <<>> THEN nd.initial[1]
                       ELSE IF identity # <<>> THEN identity[1]
                       ELSE LaneElem(nd.array, k, c, 0)
            count(c) == Cardinality(LaneVisited(nd.array, k, c, nd.pos))
        IN /\ Len(nd.trace) = nd.pos
           /\ nd.pc = "done" => nd.pos = Prod(nd.array.shape)
           /\ Cardinality({coords[p] : p \in 1..Len(coords)})
                  = Prod(nd.array.shape)
           /\ \A p \in 1..nd.pos :
                  nd.trace[p] = Ravel(rshape, DropAxis(coords[p], k))
           /\ \A q \in 1..Prod(rshape) :
                  LET c == Unravel(rshape, q - 1)
                  IN /\ LaneVisited(nd.array, k, c, nd.pos)
                            = 0..(count(c) - 1)
                     /\ nd.r.data[q] =
                            FoldLeft(nd.f, seed(c),
                                     [t \in 1..count(c) |->
                                         LaneElem(nd.array, k, c, t - 1)])

\* C18 witness: a reduction over the middle axis of a 2x2x2 array, with no
\* initial value and no identity and an order-sensitive function, has
\* visited all eight coordinates and returned.
C18_Witness ==
    /\ nd.pc = "done"
    /\ identity = <<>>
    /\ nd.initial = <<>>
    /\ nd.array.shape = <<2, 2, 2>>
    /\ nd.axis = IntAxis(1)
    /\ nd.f = "mix"
    /\ nd.pos = 8

RECURSIVE SumSeq(_)
SumSeq(s) == IF s = <<>> THEN 0 ELSE Head(s) + SumSeq(Tail(s))

\* The offset both computations are to return: the coordinates off the axis,
\* each times the result stride at the position it takes once the axis is
\* removed, summed and divided by the element size.
ExpectedOffset(strides, itemsize, idx, axis) ==
    SumSeq([m \in 1..(Len(idx) - 1) |->
               DropAxis(idx, axis)[m] * strides[m]]) \div itemsize

\* C19: for every rank, coordinate tuple, non-negative result stride tuple
\* and axis in [0, rank), the per-axis specialized computation and the
\* conditional-in-loop fallback return the same offset, the expected one.
C19_SameOffset ==
    /\ fx.pc \in {"fallback", "done"} =>
           fx.slow = ExpectedOffset(fx.strides, fx.itemsize, fx.idx, fx.axis)
    /\ fx.pc = "done" =>
           /\ fx.fast = fx.slow
           /\ fx.fast = ExpectedOffset(fx.strides, fx.itemsize, fx.idx,
                                       fx.axis)

\* C19 witness: both computations have run for rank 3 and the middle axis,
\* with coordinates on both sides of the axis, different strides and a sum
\* that is not a whole number of elements.
C19_Witness ==
    /\ fx.pc = "done"
    /\ Len(fx.idx) = 3
    /\ fx.axis = 1
    /\ fx.idx[1] > 0
    /\ fx.idx[3] > 0
    /\ fx.strides[1] # fx.strides[2]
    /\ (fx.idx[1] * fx.strides[1] + fx.idx[3] * fx.strides[2]) % fx.itemsize
           # 0
    /\ fx.fast > 0

Holds(seq, e) == \E k \in 1..Len(seq) : seq[k] = e

\* C20: there is no partial-specialization state: an add any step of which
\* fails leaves the table, the loop list and the keepalive list unchanged,
\* and an add all of whose steps succeed leaves the signature in all three.
C20_NoPartialState ==
    [][last'.op = "add" =>
          IF last'.result = "ok"
          THEN \E sig \in Signatures :
                  LET res == AddSig(Current, sig, "ok")
                  IN /\ res.st = Current'
                     /\ Holds(overloads', res.cres)
                     /\ Holds(loops', res.cres)
                     /\ Holds(keepalive', res.cres)
          ELSE /\ overloads' = overloads
               /\ loops' = loops
               /\ keepalive' = keepalive]_vars

\* The signature the table holds once add(sig) has been compiled.
Registered(sig) ==
    CompileElementWise(overloads,
                       SigFor(NormalizeSignature(sig)[1],
                              NormalizeSignature(sig)[2]), "ok").cres

\* C21: an add for a signature already present (in the table, the loop list
\* and the keepalive list) leaves all three unchanged, whatever the backend
\* does, so the loop list and the keepalive list always have as many entries
\* as the table.
C21_PresentAddNoOp ==
    /\ \A sig \in Signatures, outcome \in Outcomes :
           (/\ Holds(overloads, Registered(sig))
            /\ Holds(loops, Registered(sig))
            /\ Holds(keepalive, Registered(sig))) =>
               LET res == AddSig(Current, sig, outcome)
               IN /\ res.st.overloads = overloads
                  /\ res.st.loops = loops
                  /\ res.st.keepalive = keepalive
    /\ Len(loops) = Len(overloads)
    /\ Len(keepalive) = Len(overloads)

\* C22: in the single-axis reduction of rank N >= 2, for every input
\* coordinate and valid axis the flat offset lies in [0, number of result
\* cells), and two input coordinates get the same offset exactly when they
\* agree on every component but the reduced axis; every offset written so far
\* is inside the result buffer.
C22_OffsetInLane ==
    (nd.pc \in {"fold", "done"} /\ Len(nd.array.shape) >= 2) =>
        LET k == nd.axis.v[1]
            coords == NdEnumerate(nd.array.shape)
            offs == [p \in 1..Len(coords) |->
                        FlatPos(nd.r, nd.array, k, p)]
            cells == Len(nd.r.data)
        IN /\ cells = Prod(DropAxis(nd.array.shape, k))
           /\ \A p \in 1..Len(coords) : offs[p] \in 0..(cells - 1)
           /\ \A p \in 1..Len(coords), q \in 1..Len(coords) :
                  offs[p] = offs[q] <=>
                      DropAxis(coords[p], k) = DropAxis(coords[q], k)
           /\ \A p \in 1..Len(nd.trace) :
                  nd.trace[p] = offs[p] /\ nd.trace[p] \in 0..(cells - 1)

\* C22 witness: the reduction of a 2x2x2 array over axis 0 has returned; the
\* first and the fifth coordinate were written to the same cell, the fourth
\* and the eighth to the last of the four cells.
C22_Witness ==
    /\ nd.pc = "done"
    /\ nd.array.shape = <<2, 2, 2>>
    /\ nd.axis = IntAxis(0)
    /\ nd.trace[1] = nd.trace[5]
    /\ nd.trace[4] = nd.trace[8]
    /\ nd.trace[8] = Len(nd.r.data) - 1

-----------------------------------------------------------------------------
(* Properties of concurrent call-site typings *)

\* Both callers missed the same signature and both have returned, the
\* function never having been frozen.
BothMissedAndReturned ==
    /\ ~frozen
    /\ th[1].types = th[2].types
    /\ \A c \in Callers : th[c].missed /\ th[c].pc = "returned"

\* The table has exactly one entry for the callers' signature and both
\* callers resolved to it.
OneEntryForBoth ==
    /\ Cardinality({k \in 1..Len(overloads) :
                       overloads[k].args = th[1].types}) = 1
    /\ \A c \in Callers : Holds(overloads, th[c].sig)
    /\ th[1].sig = th[2].sig
    /\ th[1].sig.args = th[1].types

\* C23: when two callers interleave miss, compile and register for the same
\* signature on an unfrozen function, the table ends with exactly one entry
\* for it and both resolve to that entry; and when a freeze interleaves with
\* a compile that has passed its frozen check, the table does not grow once
\* the frozen flag is set.
C23_RaceOutcome ==
    [][/\ BothMissedAndReturned' => OneEntryForBoth'
       /\ frozen => overloads' = overloads]_vars

====
